---- MODULE Spec2Model ----
(***************************************************************************)
(* Jalrakshak AI service: the anomaly detector (outlier model + rule       *)
(* cascade), the leak detector, and the maintenance predictor.             *)
(*                                                                         *)
(* Units.  Sensor readings are fixed-point integers in tenths (pressure    *)
(* 1.5 bar is 15).  Probabilities are in hundredths (0.7 is 70).  The      *)
(* anomaly score of the forest is in hundredths, the anomaly confidence    *)
(* in percent.  Predicted days are in tenths of a day.                     *)
(*                                                                         *)
(* Library objects.  StandardScaler, IsolationForest and                   *)
(* RandomForestRegressor are scikit-learn objects.  Of a fitted scaler or  *)
(* forest the model keeps the identity of the data it was last fitted on   *)
(* (0 is the built-in dummy_data, k > 0 is training set k).                *)
(***************************************************************************)
EXTENDS Integers, Sequences, FiniteSets

VARIABLES
    scaler,      \* AnomalyDetector.scaler: the data the in-memory scaler is fitted on
    model,       \* AnomalyDetector.model: the data the in-memory forest is fitted on
    diskScaler,  \* models/scaler.pkl
    diskModel,   \* models/anomaly_detector.pkl
    upd,         \* the thread running update_model: position, argument, result
    det,         \* the threads running AnomalyDetector.detect: position, locals
    mp_model,    \* MaintenancePredictor.model: how it was made, the features it expects
    req,         \* the last call of a stateless operation: its name and arguments
    res,         \* ... and what it returned
    sinceRetrain \* history: the detect calls made and finished since
                 \* update_model last refitted the scaler or the forest

vars == <<scaler, model, diskScaler, diskModel, upd, det, mp_model, req, res,
          sinceRetrain>>

\* ------------------------------------------------------------------ bounds

\* Number of distinct training sets a caller may pass to update_model.
MaxTrain == 1
\* Number of request threads evaluating samples at the same time.
NumDetectors == 1

TrainingSets == 1..MaxTrain
FitIds == 0..MaxTrain
Detectors == 1..NumDetectors

None == "None"

\* ------------------------------------------------- AnomalyDetector: state

\* Samples <<flow_rate, pressure, turbidity, temperature>> the request
\* threads of the concurrent specification evaluate (tenths).
Nominal == <<110, 55, 25, 255>>
LowPressure == <<100, 12, 20, 250>>
Telemetry == {Nominal, LowPressure}

\* dummy_data of the constructor (rows in tenths).
dummy_data == {<<100, 50, 20, 250>>, <<120, 60, 30, 260>>, <<110, 55, 25, 255>>}

\* The rows of training set d; set 0 is dummy_data.
TrainingRows(d) ==
    IF d = 0 THEN dummy_data
    ELSE IF d = 1 THEN {Nominal}
    ELSE Telemetry

\* normal_ranges, in tenths.
normal_ranges ==
    [flow_rate |-> <<50, 500>>, pressure |-> <<20, 80>>,
     turbidity |-> <<0, 50>>, temperature |-> <<150, 350>>]

\* scaler.transform(features): the sample normalised by the scaler fitted
\* on data sc.
transform(sc, x) == [by |-> sc, x |-> x]

\* model.score_samples(features_scaled) of the forest fitted on data m, in
\* hundredths.  The forest is deterministic (random_state=42): the score is
\* a fixed function of the fit and of the normalised sample.  Stand-in for
\* the library: rows the forest was fitted on, normalised by the scaler it
\* was fitted with, score as inliers; everything else scores as an outlier.
score_samples(m, xs) ==
    IF xs.by = m /\ xs.x \in TrainingRows(m) THEN -40 ELSE -70

\* model.predict(features_scaled): -1 for an outlier, 1 for an inlier.  The
\* library thresholds score_samples at the fitted offset_.
predict(m, xs) == IF score_samples(m, xs) < -50 THEN -1 ELSE 1

\* ------------------------------------------- AnomalyDetector: detect rules

Abs(n) == IF n < 0 THEN -n ELSE n
Min(a, b) == IF a < b THEN a ELSE b

\* _generate_description: the template of the type, with the readings it
\* prints; "Anomaly detected" for a type that is not a key.
generate_description(anomaly_type, flow_rate, pressure, turbidity, temperature) ==
    CASE anomaly_type = "pressure_anomaly" ->
            <<"Pressure anomaly detected: ", pressure, " bar (expected: 2-8 bar)">>
      [] anomaly_type = "low_flow" ->
            <<"Low flow rate detected: ", flow_rate, " L/min (expected: 5-50 L/min)">>
      [] anomaly_type = "contamination" ->
            <<"Water quality issue: Turbidity ", turbidity, " NTU (expected: <5 NTU)">>
      [] anomaly_type = "leak" ->
            <<"Possible leak detected: Flow-Pressure mismatch (Flow: ", flow_rate,
              " L/min, Pressure: ", pressure, " bar)">>
      [] anomaly_type = "general_anomaly" -> <<"Anomaly detected in sensor readings">>
      [] OTHER -> <<"Anomaly detected">>

\* _get_recommended_action.
get_recommended_action(anomaly_type, severity) ==
    CASE anomaly_type = "pressure_anomaly" -> "Check pump operation and pipeline integrity"
      [] anomaly_type = "low_flow" -> "Inspect for blockages or valve issues"
      [] anomaly_type = "contamination" ->
            "Immediate water quality test required. Notify health authorities."
      [] anomaly_type = "leak" ->
            "Dispatch field team to investigate leak. Use GPS coordinates for location."
      [] anomaly_type = "general_anomaly" ->
            "Review sensor readings and perform diagnostic check"
      [] OTHER -> "Investigate anomaly"

\* Mutant of pressure_severity: the two low-pressure bands share the upper
\* threshold, so every pressure below 1.5 is critical.
pressure_severity_one_band(pressure) ==
    IF pressure < 15 THEN "critical"
    ELSE "medium"

\* Severity of a pressure outside the normal range (lines 62-67).
pressure_severity(pressure) ==
    IF pressure < 10 THEN "critical"
    ELSE IF pressure < 15 THEN "high"
    ELSE "medium"

\* Severity of a turbidity above the normal range (lines 75-80).
turbidity_severity(turbidity) ==
    IF turbidity > 100 THEN "critical"
    ELSE IF turbidity > 70 THEN "high"
    ELSE "medium"

\* Mutant of classify: the low-flow rule is tried before the pressure rule.
classify_flow_first(flow_rate, pressure, turbidity) ==
    IF 2 * flow_rate < normal_ranges.flow_rate[1]
    THEN <<"low_flow", IF flow_rate < 10 THEN "high" ELSE "medium">>
    ELSE IF pressure < normal_ranges.pressure[1] \/ pressure > normal_ranges.pressure[2]
    THEN <<"pressure_anomaly", pressure_severity(pressure)>>
    ELSE IF turbidity > normal_ranges.turbidity[2]
    THEN <<"contamination", turbidity_severity(turbidity)>>
    ELSE IF Abs(flow_rate - pressure * 5) > 200
    THEN <<"leak", "high">>
    ELSE <<"general_anomaly", "medium">>

\* The ordered cascade of lines 60-88: <<anomaly_type, severity>> of a sample
\* the forest flagged.  flow_rate < normal_ranges['flow_rate'][0] * 0.5 is
\* 2 * flow_rate < lower bound; abs(flow_rate - pressure * 5) > 20 is in
\* tenths.
classify(flow_rate, pressure, turbidity) ==
    IF pressure < normal_ranges.pressure[1] \/ pressure > normal_ranges.pressure[2]
    THEN <<"pressure_anomaly", pressure_severity(pressure)>>
    ELSE IF 2 * flow_rate < normal_ranges.flow_rate[1]
    THEN <<"low_flow", IF flow_rate < 10 THEN "high" ELSE "medium">>
    ELSE IF turbidity > normal_ranges.turbidity[2]
    THEN <<"contamination", turbidity_severity(turbidity)>>
    ELSE IF Abs(flow_rate - pressure * 5) > 200
    THEN <<"leak", "high">>
    ELSE <<"general_anomaly", "medium">>

\* Mutant of detect_result: the rules grade the severity whether or not
\* the forest flagged the sample.
detect_result_graded(flow_rate, pressure, turbidity, temperature, prediction, anomaly_score) ==
    LET anomaly_detected == (prediction = -1)
        confidence == Abs(anomaly_score)
        c == classify(flow_rate, pressure, turbidity)
    IN  IF anomaly_detected
        THEN [anomaly_detected |-> TRUE,
              anomaly_type |-> c[1],
              severity |-> c[2],
              confidence |-> Min(confidence, 100),
              description |->
                  generate_description(c[1], flow_rate, pressure, turbidity, temperature),
              recommended_action |-> get_recommended_action(c[1], c[2])]
        ELSE [anomaly_detected |-> FALSE,
              anomaly_type |-> None,
              severity |-> c[2],
              confidence |-> Min(confidence, 100),
              description |-> <<"All parameters within normal range">>,
              recommended_action |-> "Continue monitoring"]

\* Lines 53-103 of detect: the result record from the readings, the
\* forest's prediction (line 49) and its anomaly score (line 50).
detect_result(flow_rate, pressure, turbidity, temperature, prediction, anomaly_score) ==
    LET anomaly_detected == (prediction = -1)
        confidence == Abs(anomaly_score)
        c == classify(flow_rate, pressure, turbidity)
    IN  IF anomaly_detected
        THEN [anomaly_detected |-> TRUE,
              anomaly_type |-> c[1],
              severity |-> c[2],
              confidence |-> Min(confidence, 100),
              description |->
                  generate_description(c[1], flow_rate, pressure, turbidity, temperature),
              recommended_action |-> get_recommended_action(c[1], c[2])]
        ELSE [anomaly_detected |-> FALSE,
              anomaly_type |-> None,
              severity |-> "low",
              confidence |-> Min(confidence, 100),
              description |-> <<"All parameters within normal range">>,
              recommended_action |-> "Continue monitoring"]

\* ------------------------------- AnomalyDetector: threads of the service

NoArg == [op |-> "none"]
NoRes == [kind |-> "none"]

IdleDetect == [pc |-> "idle", sample |-> None, scalerUsed |-> None,
               predModel |-> None, scoreModel |-> None, result |-> NoRes]
IdleUpdate == [pc |-> "idle", training_data |-> None, preScaler |-> None,
               preModel |-> None, ret |-> None]

\* The history right after the constructor or a refit by update_model
\* (lines 131, 132) left the scaler sc and the forest m in memory: fresh
\* are the threads in a detect call that began since, evals the
\* <<sample, result>> pairs of the calls that began and returned since,
\* repeated tells that one sample was among them twice.
retrained(sc, m) ==
    [scaler |-> sc, model |-> m, fresh |-> {}, evals |-> {}, repeated |-> FALSE]

\* The state after the constructors ran.  AnomalyDetector: models/ held no
\* forest, so scaler and forest are fitted on dummy_data and saved; or it
\* held the pair an earlier process saved, which is loaded.
InitDetector ==
    /\ \E d \in FitIds :
          /\ scaler = d /\ model = d
          /\ diskScaler = d /\ diskModel = d
    /\ upd = IdleUpdate
    /\ det = [d \in Detectors |-> IdleDetect]

\* MaintenancePredictor: no saved regressor, so one is fitted on dummy_X of
\* 5 columns (line 17); or a saved one is loaded, fitted on 5 columns by an
\* earlier cold start or on the 6 features of _extract_features elsewhere.
InitPredictor ==
    mp_model \in {[origin |-> "bootstrap", n_features_in |-> 5],
                  [origin |-> "loaded", n_features_in |-> 5],
                  [origin |-> "loaded", n_features_in |-> 6]}

\* detect is called with a sample (line 39).
DetectCall(d, x) ==
    /\ det[d].pc \in {"idle", "done"}
    /\ det' = [det EXCEPT ![d] = [IdleDetect EXCEPT !.pc = "l46", !.sample = x]]
    /\ sinceRetrain' = [sinceRetrain EXCEPT !.fresh = @ \cup {d}]
    /\ UNCHANGED <<scaler, model, diskScaler, diskModel, upd, mp_model, req, res>>

\* Mutant of DetectTransform: the scaler is updated with the sample after
\* it scaled it, as partial_fit would (-1 is that fit).
DetectTransform_partial_fit(d) ==
    /\ det[d].pc = "l46"
    /\ det' = [det EXCEPT ![d].pc = "l49", ![d].scalerUsed = scaler]
    /\ scaler' = -1
    /\ UNCHANGED <<model, diskScaler, diskModel, upd, mp_model, req, res, sinceRetrain>>

\* Line 46: features_scaled = self.scaler.transform(features).
DetectTransform(d) ==
    /\ det[d].pc = "l46"
    /\ det' = [det EXCEPT ![d].pc = "l49", ![d].scalerUsed = scaler]
    /\ UNCHANGED <<scaler, model, diskScaler, diskModel, upd, mp_model, req, res, sinceRetrain>>

\* Line 49: prediction = self.model.predict(features_scaled).
DetectPredict(d) ==
    /\ det[d].pc = "l49"
    /\ det' = [det EXCEPT ![d].pc = "l50", ![d].predModel = model]
    /\ UNCHANGED <<scaler, model, diskScaler, diskModel, upd, mp_model, req, res, sinceRetrain>>

\* Lines 50-103: anomaly_score = self.model.score_samples(...)[0], then the
\* rules on the thread's locals, then return.
DetectScore(d) ==
    /\ det[d].pc = "l50"
    /\ LET x == det[d].sample
           xs == transform(det[d].scalerUsed, x)
       IN det' = [det EXCEPT ![d].pc = "done", ![d].scoreModel = model,
                     ![d].result = detect_result(x[1], x[2], x[3], x[4],
                                       predict(det[d].predModel, xs),
                                       score_samples(model, xs))]
    /\ sinceRetrain' =
          IF d \in sinceRetrain.fresh
          THEN [sinceRetrain EXCEPT
                   !.fresh = @ \ {d},
                   !.evals = @ \cup {<<det[d].sample, det'[d].result>>},
                   !.repeated = @ \/ \E e \in sinceRetrain.evals :
                                        e[1] = det[d].sample]
          ELSE sinceRetrain
    /\ UNCHANGED <<scaler, model, diskScaler, diskModel, upd, mp_model, req, res>>

\* update_model is called with a training set (line 127).  preScaler and
\* preModel remember the estimators in place before the call.
UpdateCall(data) ==
    /\ upd.pc \in {"idle", "done"}
    /\ upd' = [pc |-> "l130", training_data |-> data, preScaler |-> scaler,
               preModel |-> model, ret |-> None]
    /\ UNCHANGED <<scaler, model, diskScaler, diskModel, det, mp_model, req, res, sinceRetrain>>

\* Lines 135-137: the except clause prints and returns False.
update_failed == [upd EXCEPT !.pc = "done", !.ret = FALSE]

\* Line 130: X = np.array(training_data); raises on rows numpy rejects.
UpdateArray ==
    /\ upd.pc = "l130"
    /\ \/ upd' = [upd EXCEPT !.pc = "l131"]
       \/ upd' = update_failed
    /\ UNCHANGED <<scaler, model, diskScaler, diskModel, det, mp_model, req, res, sinceRetrain>>

\* Line 131: X_scaled = self.scaler.fit_transform(X) refits the scaler the
\* detector holds, in place; or raises (empty rows), taken here to leave
\* the scaler as it was.
scaler_fit(data) == data

UpdateScalerFit ==
    /\ upd.pc = "l131"
    /\ \/ /\ scaler' = scaler_fit(upd.training_data)
          /\ upd' = [upd EXCEPT !.pc = "l132"]
          /\ sinceRetrain' = retrained(scaler', model)
       \/ /\ upd' = update_failed
          /\ UNCHANGED <<scaler, sinceRetrain>>
    /\ UNCHANGED <<model, diskScaler, diskModel, det, mp_model, req, res>>

\* Line 132: self.model.fit(X_scaled) refits the forest in place; or raises
\* (a numerical failure), taken here to leave the forest as it was.
model_fit(data) == data

UpdateModelFit ==
    /\ upd.pc = "l132"
    /\ \/ /\ model' = model_fit(upd.training_data)
          /\ upd' = [upd EXCEPT !.pc = "l133"]
          /\ sinceRetrain' = retrained(scaler, model')
       \/ /\ upd' = update_failed
          /\ UNCHANGED <<model, sinceRetrain>>
    /\ UNCHANGED <<scaler, diskScaler, diskModel, det, mp_model, req, res>>

\* Line 133, _save_model line 36: joblib.dump(self.model, self.model_path);
\* or the write raises.
UpdateSaveModel ==
    /\ upd.pc = "l133"
    /\ \/ /\ diskModel' = model
          /\ upd' = [upd EXCEPT !.pc = "l37"]
       \/ /\ upd' = update_failed
          /\ UNCHANGED diskModel
    /\ UNCHANGED <<scaler, model, diskScaler, det, mp_model, req, res, sinceRetrain>>

\* _save_model line 37: joblib.dump(self.scaler, self.scaler_path), then
\* line 134 returns True; or the write raises.
UpdateSaveScaler ==
    /\ upd.pc = "l37"
    /\ \/ /\ diskScaler' = scaler
          /\ upd' = [upd EXCEPT !.pc = "done", !.ret = TRUE]
       \/ /\ upd' = update_failed
          /\ UNCHANGED diskScaler
    /\ UNCHANGED <<scaler, model, diskModel, det, mp_model, req, res, sinceRetrain>>

\* ------------------------------------ the detector under request threads

Init ==
    /\ InitDetector
    /\ InitPredictor
    /\ req = NoArg
    /\ res = NoRes
    /\ sinceRetrain = retrained(scaler, model)

Next ==
    \/ \E d \in Detectors, x \in Telemetry : DetectCall(d, x)
    \/ \E d \in Detectors : DetectTransform(d)
    \/ \E d \in Detectors : DetectPredict(d)
    \/ \E d \in Detectors : DetectScore(d)
    \/ \E data \in TrainingSets : UpdateCall(data)
    \/ UpdateArray
    \/ UpdateScalerFit
    \/ UpdateModelFit
    \/ UpdateSaveModel
    \/ UpdateSaveScaler

\* The request threads never touch the regressor of MaintenancePredictor,
\* so its cold start stands for its three possible values here.
InitThreads ==
    /\ Init
    /\ mp_model.origin = "bootstrap"

Spec == InitThreads /\ [][Next]_vars

\* C1: whenever update_model returns False, the in-memory scaler and forest
\* are the ones that were in place before the call.
C1_FailedUpdateLeavesModelIntact ==
    (upd.pc = "done" /\ upd.ret = FALSE) =>
        (scaler = upd.preScaler /\ model = upd.preModel)

\* C2: a detect call never reads while update_model is between its first
\* write and its return, and the scaler and the forest a detect call used
\* come from the same fit.
UpdateMutating == upd.pc \in {"l132", "l133", "l37"}
DetectReading(d) == det[d].pc \in {"l49", "l50"}

C2_DetectSeesOneFit ==
    \A d \in Detectors :
        /\ ~(DetectReading(d) /\ UpdateMutating)
        /\ det[d].pc = "done" =>
              (det[d].scalerUsed = det[d].predModel
                  /\ det[d].predModel = det[d].scoreModel)

\* ------------------------------------------ AnomalyDetector.detect, alone

\* Readings around every threshold of the rules (tenths), and the verdicts
\* a forest can give: lines 49 and 50 read self.model separately, so the
\* prediction and the score are independent inputs.
Pressures == {0, 9, 10, 12, 14, 15, 19, 20, 21, 50, 80, 81, 120}
FlowRates == {0, 9, 10, 24, 25, 100, 199, 200, 300, 301, 600}
Turbidities == {0, 49, 50, 51, 70, 71, 100, 101}
Temperatures == {100, 250}
Scores == {-120, -100, -55, 0, 30}

\* detect(flow_rate, pressure, turbidity, temperature) on a forest that
\* answers prediction and anomaly_score.  The stateless operations are
\* taken one call per behaviour: a call reads nothing an earlier call left.
AnomalyDetect(flow_rate, pressure, turbidity, temperature, prediction, anomaly_score) ==
    /\ req = NoArg
    /\ req' = [op |-> "detect", flow_rate |-> flow_rate, pressure |-> pressure,
               turbidity |-> turbidity, temperature |-> temperature,
               prediction |-> prediction, anomaly_score |-> anomaly_score]
    /\ res' = detect_result(flow_rate, pressure, turbidity, temperature,
                            prediction, anomaly_score)
    /\ UNCHANGED <<scaler, model, diskScaler, diskModel, upd, det, mp_model, sinceRetrain>>

NextAnomaly ==
    /\ req = NoArg
    /\ \E f \in FlowRates, p \in Pressures, t \in Turbidities, c \in Temperatures,
       prediction \in {-1, 1}, s \in Scores : AnomalyDetect(f, p, t, c, prediction, s)

SpecAnomaly == Init /\ [][NextAnomaly]_vars

\* C4: a flagged sample gets exactly one of the five types, by the ordered
\* cascade, first match winning: pressure outside [2,8] -> pressure_anomaly
\* (critical below 1, high below 1.5, else medium, every pressure above 8
\* included) whatever flow and turbidity are; else flow_rate < 2.5 ->
\* low_flow (high below 1, else medium); else turbidity > 5 -> contamination
\* (critical above 10, high above 7, else medium); else
\* |flow_rate - 5*pressure| > 20 -> leak, high; else general_anomaly, medium.
C4_OrderedCascade ==
    (req.op = "detect" /\ res.anomaly_detected) =>
        LET f == req.flow_rate
            p == req.pressure
            t == req.turbidity
            r1 == p < 20 \/ p > 80
            r2 == ~r1 /\ f < 25
            r3 == ~r1 /\ ~r2 /\ t > 50
            r4 == ~r1 /\ ~r2 /\ ~r3 /\ (f - 5 * p > 200 \/ 5 * p - f > 200)
            r5 == ~r1 /\ ~r2 /\ ~r3 /\ ~r4
        IN  /\ r1 => /\ res.anomaly_type = "pressure_anomaly"
                     /\ p < 10 => res.severity = "critical"
                     /\ (p >= 10 /\ p < 15) => res.severity = "high"
                     /\ p >= 15 => res.severity = "medium"
            /\ r2 => /\ res.anomaly_type = "low_flow"
                     /\ res.severity = IF f < 10 THEN "high" ELSE "medium"
            /\ r3 => /\ res.anomaly_type = "contamination"
                     /\ t > 100 => res.severity = "critical"
                     /\ (t > 70 /\ t <= 100) => res.severity = "high"
                     /\ t <= 70 => res.severity = "medium"
            /\ r4 => res.anomaly_type = "leak" /\ res.severity = "high"
            /\ r5 => res.anomaly_type = "general_anomaly" /\ res.severity = "medium"
            /\ res.anomaly_type \in {"pressure_anomaly", "low_flow", "contamination",
                                     "leak", "general_anomaly"}

\* A flagged sample whose pressure is out of range although its flow is low
\* and its turbidity high: the first rule wins over the second and third.
C4_Witness ==
    /\ req.op = "detect" /\ res.anomaly_detected
    /\ req.pressure = 81 /\ req.flow_rate = 9 /\ req.turbidity = 101
    /\ res.anomaly_type = "pressure_anomaly" /\ res.severity = "medium"

\* C5 as stated: a flagged sample with pressure 1.2 and flow_rate 10 is a
\* pressure_anomaly of severity critical.
C5_Original ==
    (req.op = "detect" /\ res.anomaly_detected
        /\ req.pressure = 12 /\ req.flow_rate = 100) =>
        (res.anomaly_type = "pressure_anomaly" /\ res.severity = "critical")

\* C5 amended: a flagged sample with pressure 1.2 and flow_rate 10 is a
\* pressure_anomaly of severity high (1 <= 1.2 < 1.5).
C5_PressureScenario ==
    (req.op = "detect" /\ res.anomaly_detected
        /\ req.pressure = 12 /\ req.flow_rate = 100) =>
        (res.anomaly_type = "pressure_anomaly" /\ res.severity = "high")

C5_Witness ==
    /\ req.op = "detect" /\ res.anomaly_detected
    /\ req.pressure = 12 /\ req.flow_rate = 100
    /\ res.severity = "high"

\* ------------------------------------------------------ LeakDetector.detect

\* An optional argument: <<>> is Python's None, <<v>> the value v.
Absent == <<>>
Some(v) == <<v>>

\* Python's truth value of an optional number: None and 0 are false.
Truthy(o) == o # Absent /\ o[1] # 0

\* Lines 16-33: <<leak_detected, confidence>> (hundredths) of the current
\* pressure and flow_rate (tenths).
leak_rules(pressure, flow_rate) ==
    IF pressure < 20 /\ flow_rate > 0 THEN <<TRUE, 70>>
    ELSE IF pressure < 15 THEN <<TRUE, 90>>
    ELSE IF flow_rate > 500 /\ pressure < 30 THEN <<TRUE, 80>>
    ELSE <<FALSE, 0>>

\* Line 35: the condition under which gps_estimate is built.
gps_attached(leak_detected, gps_lat, gps_lon) ==
    leak_detected /\ Truthy(gps_lat) /\ Truthy(gps_lon)

\* LeakDetector.detect (lines 12-49); device_id is not read.
leak_detect(pressure, flow_rate, gps_lat, gps_lon) ==
    LET r == leak_rules(pressure, flow_rate)
    IN  [leak_detected |-> r[1],
         confidence |-> r[2],
         gps_estimate |->
             IF gps_attached(r[1], gps_lat, gps_lon)
             THEN Some([lat |-> gps_lat[1], lon |-> gps_lon[1],
                        confidence |-> r[2], method |-> "sensor_location"])
             ELSE Absent,
         pressure |-> pressure,
         flow_rate |-> flow_rate]

LeakPressures == {0, 10, 12, 14, 15, 19, 20, 29, 30, 50}
LeakFlowRates == {0, 1, 100, 500, 501, 600}
Coordinates == {Absent, Some(0), Some(125), Some(-775)}

LeakDetect(pressure, flow_rate, gps_lat, gps_lon) ==
    /\ req = NoArg
    /\ req' = [op |-> "leak_detect", pressure |-> pressure, flow_rate |-> flow_rate,
               gps_lat |-> gps_lat, gps_lon |-> gps_lon]
    /\ res' = leak_detect(pressure, flow_rate, gps_lat, gps_lon)
    /\ UNCHANGED <<scaler, model, diskScaler, diskModel, upd, det, mp_model, sinceRetrain>>

NextLeak ==
    /\ req = NoArg
    /\ \E p \in LeakPressures, f \in LeakFlowRates, lat \in Coordinates,
          lon \in Coordinates : LeakDetect(p, f, lat, lon)

SpecLeak == Init /\ [][NextLeak]_vars

\* C6: the pressure < 1.5 rule overrides the others: every input with
\* pressure < 1.5 gives leak_detected with confidence 0.9; confidence 0.7 is
\* returned only for 1.5 <= pressure < 2.0 with flow_rate > 0, and 0.8 only
\* for flow_rate > 50 with 2.0 <= pressure < 3.
C6_LowPressureOverrides ==
    req.op = "leak_detect" =>
        /\ req.pressure < 15 => (res.leak_detected /\ res.confidence = 90)
        /\ res.confidence = 70 =>
              (req.pressure >= 15 /\ req.pressure < 20 /\ req.flow_rate > 0)
        /\ res.confidence = 80 =>
              (req.flow_rate > 500 /\ req.pressure >= 20 /\ req.pressure < 30)

\* C7: when a leak rule fires and both coordinates are supplied (0
\* included), gps_estimate carries that lat and lon, the result's
\* confidence and method "sensor_location"; it is absent when no rule fires
\* or a coordinate is absent.
C7_GpsAttachedWhenPresent ==
    req.op = "leak_detect" =>
        IF res.leak_detected /\ req.gps_lat # Absent /\ req.gps_lon # Absent
        THEN res.gps_estimate =
                Some([lat |-> req.gps_lat[1], lon |-> req.gps_lon[1],
                      confidence |-> res.confidence, method |-> "sensor_location"])
        ELSE res.gps_estimate = Absent

\* ----------------------------------------- LeakDetector.detect_with_history

\* Pressure series are in ninths of a bar (5.0 bar is 45), so that a
\* decline from 5.0 to 1.0 over ten points (4/9 bar a step) is integral;
\* flow series are in L/min.  All arithmetic is exact: a comparison of
\* floats is modelled by the comparison of the numbers they stand for.

\* Longest series a caller sends.
MaxLen == 26

RECURSIVE SeqSum(_)
SeqSum(s) == IF Len(s) = 0 THEN 0 ELSE Head(s) + SeqSum(Tail(s))

RECURSIVE SeqMin(_)
SeqMin(s) ==
    IF Len(s) = 1 THEN s[1]
    ELSE LET m == SeqMin(Tail(s)) IN IF s[1] <= m THEN s[1] ELSE m

\* np.argmin: the first index (from 0) of the minimum.
argmin(s) == (CHOOSE i \in 1..Len(s) :
                 s[i] = SeqMin(s) /\ \A j \in 1..(i - 1) : s[j] # s[i]) - 1

Dot(x, y) == SeqSum([i \in 1..Len(x) |-> x[i] * y[i]])

\* np.gradient of a series, times 2 (so in eighteenths of a bar): one-sided
\* differences at the two ends, central differences (x[i+1] - x[i-1]) / 2
\* inside.
gradient2(x) ==
    LET n == Len(x)
    IN  [i \in 1..n |->
            IF i = 1 THEN 2 * (x[2] - x[1])
            ELSE IF i = n THEN 2 * (x[n] - x[n - 1])
            ELSE x[i + 1] - x[i - 1]]

\* n^2 times the covariance of x and y, and n^2 times the variance of x.
Cov(x, y) == Len(x) * Dot(x, y) - SeqSum(x) * SeqSum(y)
Var(x) == Cov(x, x)

\* np.corrcoef(x, y)[0, 1] as cov / sqrt(var): the coefficient is
\* cov / sqrt(var), and is NaN when var = 0 (a constant series: 0 / 0).
corrcoef(x, y) == [cov |-> Cov(x, y), var |-> Var(x) * Var(y)]

\* Line 84: pressure_drop < -0.3, pressure_drop given in eighteenths.
gradient_signal(pressure_drop) == 10 * pressure_drop < -54

\* Line 88: correlation < -0.5; a comparison with NaN is false.
correlation_signal(c) ==
    c.var > 0 /\ c.cov < 0 /\ c.cov * c.cov > c.var \div 4

\* Line 92: recent_pressure < pressure_mean - 2 * pressure_std, with
\* recent = recent_sum / 5, mean = sum / n, std = sqrt(var) / n:
\* 10 * sqrt(var) < 5 * sum - n * recent_sum.
statistical_signal(st) ==
    LET d == 5 * st.sum - st.n * st.recent_sum
    IN  d > 0 /\ 100 * st.var < d * d

\* Mutant of fused_confidence: the correlation signal weighs 0.4.
fused_confidence_heavy(g, c, st) ==
    (IF g THEN 40 ELSE 0) + (IF c THEN 40 ELSE 0) + (IF st THEN 30 ELSE 0)

\* Lines 84-94: the confidence the three signals add up to (hundredths).
fused_confidence(g, c, st) ==
    (IF g THEN 40 ELSE 0) + (IF c THEN 30 ELSE 0) + (IF st THEN 30 ELSE 0)

\* detect_with_history (lines 51-117); device_id is not read.  np.corrcoef
\* raises ValueError on series of different lengths.
detect_with_history(pressure_data, flow_data) ==
    IF Len(pressure_data) < 10 \/ Len(flow_data) < 10
    THEN [leak_detected |-> FALSE, confidence |-> 0,
          message |-> "Insufficient data for leak detection"]
    ELSE IF Len(pressure_data) # Len(flow_data)
    THEN [raised |-> "ValueError"]
    ELSE
        LET n == Len(pressure_data)
            pressure_gradient == gradient2(pressure_data)
            pressure_drop == SeqMin(pressure_gradient)
            correlation == corrcoef(pressure_data, flow_data)
            stats == [sum |-> SeqSum(pressure_data), n |-> n,
                      var |-> Var(pressure_data),
                      recent_sum |-> SeqSum(SubSeq(pressure_data, n - 4, n))]
            g == gradient_signal(pressure_drop)
            c == correlation_signal(correlation)
            st == statistical_signal(stats)
            leak_detected == g \/ c \/ st
            confidence == fused_confidence(g, c, st)
        IN  [leak_detected |-> leak_detected,
             confidence |-> Min(confidence, 100),
             leak_location_estimate |->
                 IF leak_detected
                 THEN Some([index |-> argmin(pressure_gradient),
                            pressure_drop |-> pressure_drop,
                            method |-> "pressure_gradient_analysis"])
                 ELSE Absent,
             pressure_drop |-> pressure_drop,
             correlation |-> correlation,
             pressure_stats |-> stats]

\* Series of n points: a decline by d a point from a down to a floor, a
\* rise by d a point up to a cap, and k points at a followed by points at b.
Decline(n, a, d, floor) ==
    [i \in 1..n |-> IF a + d * (i - 1) < floor THEN floor ELSE a + d * (i - 1)]
Rise(n, a, d, cap) ==
    [i \in 1..n |-> IF a + d * (i - 1) > cap THEN cap ELSE a + d * (i - 1)]
Step(n, k, a, b) == [i \in 1..n |-> IF i <= k THEN a ELSE b]

HistoryLengths == {9, 10, 11, MaxLen}

PressureSeries(n) ==
    {Decline(n, 45, d, 9) : d \in {0, -1, -2, -3, -4}}
        \cup {Step(n, k, 45, lo) : k \in {5, n - 5, n - 1}, lo \in {40, 39, 9}}
        \cup {Rise(n, 9, 4, 45)}

FlowSeries(n) ==
    {Step(n, k, 20, b) : k \in {5, n - 5}, b \in {20, 22, 18}}
        \cup {Rise(n, 20, 1, 25)}

DetectWithHistory(pressure_data, flow_data) ==
    /\ req = NoArg
    /\ req' = [op |-> "detect_with_history", pressure_data |-> pressure_data,
               flow_data |-> flow_data]
    /\ res' = detect_with_history(pressure_data, flow_data)
    /\ UNCHANGED <<scaler, model, diskScaler, diskModel, upd, det, mp_model, sinceRetrain>>

NextHistory ==
    /\ req = NoArg
    /\ \E n \in HistoryLengths, m \in HistoryLengths :
          \E p \in PressureSeries(n), f \in FlowSeries(m) : DetectWithHistory(p, f)

SpecHistory == Init /\ [][NextHistory]_vars

\* The three signals as the claim states them, read off the returned
\* pressure_drop, correlation and pressure_stats, and the sum of the weights
\* of those that crossed.
HistoryWeights(r) ==
    LET d == 5 * r.pressure_stats.sum - r.pressure_stats.n * r.pressure_stats.recent_sum
    IN  (IF 10 * r.pressure_drop < -54 THEN 40 ELSE 0)
        + (IF r.correlation.var > 0 /\ r.correlation.cov < 0
                /\ r.correlation.cov * r.correlation.cov > r.correlation.var \div 4
           THEN 30 ELSE 0)
        + (IF d > 0 /\ 100 * r.pressure_stats.var < d * d THEN 30 ELSE 0)

InsufficientHistory(r) ==
    /\ "raised" \notin DOMAIN r
    /\ ~r.leak_detected /\ r.confidence = 0
    /\ "message" \in DOMAIN r

FusedHistory(r) ==
    /\ "raised" \notin DOMAIN r
    /\ r.confidence = Min(HistoryWeights(r), 100)
    /\ r.confidence <= 100
    /\ r.leak_detected <=> r.confidence > 0
    /\ r.leak_location_estimate # Absent <=> r.leak_detected

\* C8 as stated: with fewer than 10 points in either series the result is
\* leak_detected=false, confidence 0 and a message; otherwise confidence is
\* the sum of the weights of the signals that crossed (0.4, 0.3, 0.3),
\* capped at 1.0, leak_detected is true exactly when confidence > 0 and
\* leak_location_estimate is present exactly when leak_detected.
C8_Original ==
    req.op = "detect_with_history" =>
        IF Len(req.pressure_data) < 10 \/ Len(req.flow_data) < 10
        THEN InsufficientHistory(res)
        ELSE FusedHistory(res)

\* C8 amended: as stated when the two series have the same length; with 10
\* or more points each but different lengths the call raises and returns
\* nothing.
C8_HistoryFusion ==
    req.op = "detect_with_history" =>
        IF Len(req.pressure_data) < 10 \/ Len(req.flow_data) < 10
        THEN InsufficientHistory(res)
        ELSE IF Len(req.pressure_data) = Len(req.flow_data)
        THEN FusedHistory(res)
        ELSE "raised" \in DOMAIN res

\* Two series of equal length on which all three signals cross.
C8_Witness ==
    /\ req.op = "detect_with_history"
    /\ Len(req.pressure_data) = Len(req.flow_data)
    /\ Len(req.pressure_data) >= 10
    /\ "raised" \notin DOMAIN res
    /\ res.confidence = 100 /\ res.leak_detected
    /\ res.leak_location_estimate # Absent

\* C9: pressure declining linearly from 5.0 to 1.0 over 10 points with flow
\* constant at 20 gives leak_detected with confidence >= 0.7.
C9_DeclineConstantFlow ==
    (req.op = "detect_with_history"
        /\ req.pressure_data = <<45, 41, 37, 33, 29, 25, 21, 17, 13, 9>>
        /\ req.flow_data = <<20, 20, 20, 20, 20, 20, 20, 20, 20, 20>>) =>
        (res.leak_detected /\ res.confidence >= 70)

\* --------------------------------------------- MaintenancePredictor.predict

\* Longest history a caller sends.
MaxRecords == 101

\* d.get(key, 0) of a record of historical_data.
Get(d, key) == IF key \in DOMAIN d THEN d[key] ELSE 0

\* Records of historical_data (readings in tenths): a full record with the
\* pump on, and one with the pump off that lacks turbidity and temperature.
RecordOn == [flow_rate |-> 100, pressure |-> 50, turbidity |-> 20,
             temperature |-> 250, pump_status |-> "on"]
RecordOff == [flow_rate |-> 0, pressure |-> 12, pump_status |-> "off"]

\* n records, the first k with the pump on.
History(n, k) == [i \in 1..n |-> IF i <= k THEN RecordOn ELSE RecordOff]

\* np.mean and np.std of a list, exactly: sum / n and sqrt(var) / n.
mean(xs) == [sum |-> SeqSum(xs), n |-> Len(xs)]
std(xs) == [var |-> Var(xs), n |-> Len(xs)]

\* _extract_features (lines 68-88): six features; temperatures is built
\* (line 75) and not used.
extract_features(historical_data) ==
    LET n == Len(historical_data)
        flow_rates == [i \in 1..n |-> Get(historical_data[i], "flow_rate")]
        pressures == [i \in 1..n |-> Get(historical_data[i], "pressure")]
        turbidities == [i \in 1..n |-> Get(historical_data[i], "turbidity")]
        pump_statuses ==
            [i \in 1..n |-> IF "pump_status" \in DOMAIN historical_data[i]
                               /\ historical_data[i].pump_status = "on"
                            THEN 1 ELSE 0]
    IN  <<mean(flow_rates), std(flow_rates), mean(pressures), std(pressures),
          mean(turbidities), [sum |-> SeqSum(pump_statuses), n |-> n]>>

\* Lines 48-55: the urgency band of the predicted days (tenths of a day).
urgency_of(prediction) ==
    IF prediction < 10 THEN "critical"
    ELSE IF prediction < 30 THEN "high"
    ELSE IF prediction < 70 THEN "medium"
    ELSE "low"

\* _get_recommended_actions: the actions listed for the urgency.
get_recommended_actions(urgency) ==
    CASE urgency = "critical" ->
            <<"Schedule immediate maintenance", "Check pump motor and bearings",
              "Inspect pipeline for leaks", "Review sensor calibrations">>
      [] urgency = "high" ->
            <<"Schedule maintenance within 3 days", "Monitor pump performance closely",
              "Check for unusual vibrations or sounds", "Review recent sensor readings">>
      [] urgency = "medium" ->
            <<"Schedule maintenance within 1 week", "Continue regular monitoring",
              "Prepare maintenance checklist">>
      [] urgency = "low" ->
            <<"Continue regular monitoring",
              "Schedule routine maintenance as per schedule">>
      [] OTHER -> <<>>

\* Line 58: confidence = min(len(historical_data) / 100, 1.0), in hundredths.
maintenance_confidence(n) == Min(n, 100)

\* predict (lines 27-66) on the regressor the predictor holds; days is what
\* the regressor answers for the features (tenths of a day).  The regressor
\* raises ValueError for a feature vector of another length than it was
\* fitted on.
maintenance_predict(regressor, historical_data, days) ==
    IF Len(historical_data) < 30
    THEN [maintenance_needed |-> FALSE,
          days_until_maintenance |-> Absent,
          confidence |-> 0,
          message |-> "Insufficient historical data (need at least 30 readings)"]
    ELSE
        LET features == extract_features(historical_data)
        IN  IF Len(features) # regressor.n_features_in
            THEN [raised |-> "ValueError"]
            ELSE [maintenance_needed |-> days < 70,
                  days_until_maintenance |-> Some(days),
                  urgency |-> urgency_of(days),
                  confidence |-> maintenance_confidence(Len(historical_data)),
                  recommended_actions |-> get_recommended_actions(urgency_of(days))]

\* Days a regressor can answer, around the bands' edges (tenths).
Days == {0, 9, 10, 29, 30, 69, 70, 150, 299}

MaintenancePredict(n, k, days) ==
    /\ req = NoArg
    /\ req' = [op |-> "predict", n |-> n, pumps_on |-> k, days |-> days]
    /\ res' = maintenance_predict(mp_model, History(n, k), days)
    /\ UNCHANGED <<scaler, model, diskScaler, diskModel, upd, det, mp_model, sinceRetrain>>

NextMaintenance ==
    /\ req = NoArg
    /\ \E n \in 0..MaxRecords, days \in Days :
          \E k \in {0, n \div 2, n} : MaintenancePredict(n, k, days)

SpecMaintenance == Init /\ [][NextMaintenance]_vars

\* C3: from a cold start (the regressor fitted in the constructor), predict
\* on 30 or more records returns a MaintenanceResult: the feature vector
\* predict builds has as many features as the regressor expects.
C3_ColdStartPredicts ==
    (req.op = "predict" /\ mp_model.origin = "bootstrap" /\ req.n >= 30) =>
        /\ "raised" \notin DOMAIN res
        /\ {"maintenance_needed", "days_until_maintenance", "urgency", "confidence"}
              \subseteq DOMAIN res

\* C10: with n < 30 records the result is maintenance_needed=false,
\* confidence 0 and a message; with n >= 30 the confidence is min(n/100, 1),
\* maintenance_needed is true exactly when the predicted days are under 7,
\* urgency is critical (<1), high (<3), medium (<7), else low, and so
\* maintenance_needed is true exactly when urgency is not low.
C10_MaintenanceBands ==
    req.op = "predict" =>
        IF req.n < 30
        THEN /\ "raised" \notin DOMAIN res
             /\ ~res.maintenance_needed /\ res.confidence = 0
             /\ "message" \in DOMAIN res
        ELSE /\ "raised" \notin DOMAIN res
             /\ res.confidence = (IF req.n < 100 THEN req.n ELSE 100)
             /\ res.maintenance_needed <=> req.days < 70
             /\ req.days < 10 => res.urgency = "critical"
             /\ (req.days >= 10 /\ req.days < 30) => res.urgency = "high"
             /\ (req.days >= 30 /\ req.days < 70) => res.urgency = "medium"
             /\ req.days >= 70 => res.urgency = "low"
             /\ res.maintenance_needed <=> res.urgency # "low"

\* ----------------------------------------------- ContaminationDetector.detect

\* _get_action of ContaminationDetector.
contamination_action(severity) ==
    CASE severity = "critical" ->
            "IMMEDIATE: Stop water supply. Notify health authorities. Conduct emergency water quality test."
      [] severity = "high" ->
            "URGENT: Issue public advisory. Increase monitoring frequency. Investigate contamination source."
      [] severity = "medium" ->
            "Monitor closely. Increase sampling frequency. Check upstream sources."
      [] severity = "low" -> "Continue monitoring. Review sensor calibration."
      [] OTHER -> "Monitor and investigate"

\* Lines 17-37: the turbidity bands (turbidity_critical 10.0, turbidity_warning
\* 7.0, turbidity_safe 5.0; tenths), confidence in hundredths.
turbidity_band(turbidity) ==
    IF turbidity >= 100
    THEN [contamination_detected |-> TRUE, severity |-> "critical", confidence |-> 95,
          description |-> <<"Critical contamination detected: Turbidity ", turbidity,
                            " NTU exceeds safe limit (5 NTU)">>]
    ELSE IF turbidity >= 70
    THEN [contamination_detected |-> TRUE, severity |-> "high", confidence |-> 80,
          description |-> <<"High contamination risk: Turbidity ", turbidity,
                            " NTU above warning threshold">>]
    ELSE IF turbidity >= 50
    THEN [contamination_detected |-> TRUE, severity |-> "medium", confidence |-> 60,
          description |-> <<"Moderate contamination: Turbidity ", turbidity,
                            " NTU above safe limit">>]
    ELSE [contamination_detected |-> FALSE, severity |-> "low", confidence |-> 0,
          description |-> <<>>]

\* Mutant of temperature_check: the bumped confidence is not capped.
temperature_check_uncapped(b, temperature) ==
    IF temperature < 150 \/ temperature > 350
    THEN IF b.contamination_detected
         THEN [b EXCEPT !.confidence = b.confidence + 10,
                        !.description = b.description \o
                            <<". Temperature anomaly: ", temperature, "C">>]
         ELSE [contamination_detected |-> TRUE, severity |-> "low", confidence |-> 50,
               description |-> <<"Temperature anomaly detected: ", temperature,
                                 "C (expected: 15-35C)">>]
    ELSE b

\* Lines 39-48: the temperature check on the outcome b of the bands
\* (temperature_range (15, 35); tenths).
temperature_check(b, temperature) ==
    IF temperature < 150 \/ temperature > 350
    THEN IF b.contamination_detected
         THEN [b EXCEPT !.confidence = Min(b.confidence + 10, 100),
                        !.description = b.description \o
                            <<". Temperature anomaly: ", temperature, "C">>]
         ELSE [contamination_detected |-> TRUE, severity |-> "low", confidence |-> 50,
               description |-> <<"Temperature anomaly detected: ", temperature,
                                 "C (expected: 15-35C)">>]
    ELSE b

\* ContaminationDetector.detect (lines 13-68); device_id is not read.
contamination_detect(turbidity, temperature, gps_lat, gps_lon) ==
    LET r == temperature_check(turbidity_band(turbidity), temperature)
    IN  [contamination_detected |-> r.contamination_detected,
         severity |-> r.severity,
         confidence |-> r.confidence,
         description |-> r.description,
         turbidity |-> turbidity,
         temperature |-> temperature,
         gps_estimate |->
             IF r.contamination_detected /\ Truthy(gps_lat) /\ Truthy(gps_lon)
             THEN Some([lat |-> gps_lat[1], lon |-> gps_lon[1],
                        confidence |-> r.confidence, method |-> "sensor_location"])
             ELSE Absent,
         recommended_action |-> contamination_action(r.severity)]

ContaminationTurbidities == {0, 49, 50, 51, 69, 70, 71, 99, 100, 101, 500}
ContaminationTemperatures == {-50, 149, 150, 250, 350, 351}

ContaminationDetect(turbidity, temperature, gps_lat, gps_lon) ==
    /\ req = NoArg
    /\ req' = [op |-> "contamination_detect", turbidity |-> turbidity,
               temperature |-> temperature, gps_lat |-> gps_lat, gps_lon |-> gps_lon]
    /\ res' = contamination_detect(turbidity, temperature, gps_lat, gps_lon)
    /\ UNCHANGED <<scaler, model, diskScaler, diskModel, upd, det, mp_model, sinceRetrain>>

NextContamination ==
    /\ req = NoArg
    /\ \E t \in ContaminationTurbidities, c \in ContaminationTemperatures,
          lat \in Coordinates, lon \in Coordinates : ContaminationDetect(t, c, lat, lon)

SpecContamination == Init /\ [][NextContamination]_vars

\* C12: turbidity >= 10 gives critical with confidence 0.95, 7 <= turbidity
\* < 10 high with 0.8, 5 <= turbidity < 7 medium with 0.6; a temperature
\* outside [15,35] leaves the severity of a band that fired and makes the
\* confidence min(band confidence + 0.1, 1.0); with no band it gives
\* detected, low, 0.5; when neither fires the result is not detected, low,
\* confidence 0.  The confidence is always within [0,1].
C12_ContaminationBands ==
    req.op = "contamination_detect" =>
        LET t == req.turbidity
            hot == req.temperature < 150 \/ req.temperature > 350
            band == t >= 50
            base == IF t >= 100 THEN 95 ELSE IF t >= 70 THEN 80 ELSE 60
        IN  /\ band =>
                /\ res.contamination_detected
                /\ res.severity = (IF t >= 100 THEN "critical"
                                   ELSE IF t >= 70 THEN "high" ELSE "medium")
                /\ res.confidence =
                      (IF hot THEN (IF base + 10 > 100 THEN 100 ELSE base + 10) ELSE base)
            /\ (~band /\ hot) =>
                (res.contamination_detected /\ res.severity = "low"
                    /\ res.confidence = 50)
            /\ (~band /\ ~hot) =>
                (~res.contamination_detected /\ res.severity = "low"
                    /\ res.confidence = 0)
            /\ res.confidence >= 0 /\ res.confidence <= 100

\* Turbidity in the critical band with the temperature out of range: the
\* bump reaches the cap.
C12_Witness ==
    /\ req.op = "contamination_detect"
    /\ req.turbidity >= 100 /\ req.temperature > 350
    /\ res.severity = "critical" /\ res.confidence = 100

\* ------------------------------------------------------ water quality index

\* clamp (app.py lines 22-23).
clamp(value, min_value, max_value) ==
    IF value > max_value
    THEN (IF min_value > max_value THEN min_value ELSE max_value)
    ELSE IF value < min_value THEN min_value ELSE value

\* The four sub-scores, in 75ths of a point so that every one is an
\* integer: the readings are optional, turbidity, temperature and ph in
\* tenths, conductivity in uS/cm.
\* score_turbidity: 100 - (clamp(turbidity, 0, 50) / 50) * 100.
score_turbidity(turbidity) ==
    IF turbidity = Absent THEN 60 * 75
    ELSE clamp(7500 - 15 * clamp(turbidity[1], 0, 500), 0, 7500)

\* score_conductivity: 100 - ((clamp(c, 0, 1500) - 250) / 1250) * 100.
score_conductivity(conductivity) ==
    IF conductivity = Absent THEN 65 * 75
    ELSE clamp(7500 - 6 * (clamp(conductivity[1], 0, 1500) - 250), 0, 7500)

\* score_temperature: 100 inside 15..30, else 100 - (deviation / 15) * 100
\* with deviation = min(abs(temperature - 22.5), 15).
score_temperature(temperature) ==
    IF temperature = Absent THEN 70 * 75
    ELSE IF 150 <= temperature[1] /\ temperature[1] <= 300 THEN 7500
    ELSE clamp(7500 - 50 * Min(Abs(temperature[1] - 225), 150), 0, 7500)

\* score_ph: 0 when abs(ph - 7.4) >= 3, else 100 - (deviation / 3) * 100.
score_ph(ph) ==
    IF ph = Absent THEN 70 * 75
    ELSE LET deviation == Abs(ph[1] - 74)
         IN  IF deviation >= 30 THEN 0
             ELSE clamp(7500 - 250 * deviation, 0, 7500)

\* classify_wqi on a wqi in hundredths.
classify_wqi(wqi) ==
    IF wqi >= 8000
    THEN [status |-> "good", color |-> "green",
          message |-> "Water quality is good and safe for supply."]
    ELSE IF wqi >= 6000
    THEN [status |-> "average", color |-> "yellow",
          message |-> "Water quality is acceptable but should be monitored."]
    ELSE [status |-> "bad", color |-> "red",
          message |-> "Water quality is poor. Immediate action required."]

\* calculate_water_quality: the weighted sum 0.3, 0.3, 0.2, 0.2 is n / 750
\* with n as below; round(wqi, 2) in hundredths is the integer nearest to
\* 2n / 15, which is never half way between two integers.
calculate_water_quality(turbidity, ph, temperature, conductivity) ==
    LET n == 3 * score_turbidity(turbidity) + 3 * score_ph(ph)
             + 2 * score_temperature(temperature)
             + 2 * score_conductivity(conductivity)
        wqi == (4 * n + 15) \div 30
        classification == classify_wqi(wqi)
    IN  [wqi |-> wqi, status |-> classification.status,
         color |-> classification.color, message |-> classification.message]

\* ------------------------------------------------------------------ analyze

\* Mutant of route_leak: the leak analyzer is called for every anomaly.
route_leak_every_anomaly(anomaly_result) ==
    anomaly_result.anomaly_detected

\* Line 137: the condition under which leak_detector.detect is called.
route_leak(anomaly_result) ==
    /\ anomaly_result.anomaly_detected
    /\ anomaly_result.anomaly_type \in {"leak", "pressure_anomaly"}

\* Line 148: the condition under which contamination_detector.detect is
\* called.
route_contamination(anomaly_result) ==
    /\ anomaly_result.anomaly_detected
    /\ anomaly_result.anomaly_type \in {"contamination", "turbidity_anomaly"}

\* Lines 166-183: the response from the locals of the request.
combine(anomaly_result, leak_result, contamination_result, water_quality) ==
    [kind |-> "analyze",
     anomaly_detected |-> anomaly_result.anomaly_detected,
     anomaly_type |-> anomaly_result.anomaly_type,
     severity |-> anomaly_result.severity,
     confidence |-> anomaly_result.confidence,
     description |-> anomaly_result.description,
     gps_estimate |-> IF leak_result # Absent THEN leak_result[1].gps_estimate
                      ELSE Absent,
     recommended_action |-> anomaly_result.recommended_action,
     water_quality |-> water_quality,
     leak_details |-> leak_result,
     contamination_details |-> contamination_result]

\* The request bodies: readings in tenths, ph and conductivity optional.
AnalyzeFlowRates == {20, 300, 500}
AnalyzePressures == {10, 50}
AnalyzeTurbidities == {30, 60, 70, 100, 120}
AnalyzeTemperatures == {250, 400}
AnalyzePh == {Absent, Some(74)}
AnalyzeConductivities == {Absent, Some(500)}
AnalyzeCoordinates == {Absent, Some(125)}

\* POST /analyze arrives (lines 113-124).  req is the frame of the request:
\* its position, the body, the locals, and the components called so far.
AnalyzeCall(data) ==
    /\ req = NoArg
    /\ req' = [op |-> "analyze", pc |-> "l127", data |-> data,
               anomaly_result |-> Absent, leak_result |-> Absent,
               contamination_result |-> Absent, water_quality |-> Absent,
               calls |-> <<>>]
    /\ UNCHANGED <<scaler, model, diskScaler, diskModel, upd, det, mp_model, res, sinceRetrain>>

\* Lines 127-133: anomaly_detector.detect; the forest's prediction and
\* score are its inputs here.
AnalyzeAnomaly(prediction, anomaly_score) ==
    /\ req.op = "analyze" /\ req.pc = "l127"
    /\ req' = [req EXCEPT !.pc = "l137",
                  !.anomaly_result =
                      Some(detect_result(req.data.flow_rate, req.data.pressure,
                                         req.data.turbidity, req.data.temperature,
                                         prediction, anomaly_score)),
                  !.calls = Append(req.calls, "anomaly_detector.detect")]
    /\ UNCHANGED <<scaler, model, diskScaler, diskModel, upd, det, mp_model, res, sinceRetrain>>

\* Lines 136-144.
AnalyzeLeak ==
    /\ req.op = "analyze" /\ req.pc = "l137"
    /\ IF route_leak(req.anomaly_result[1])
       THEN req' = [req EXCEPT !.pc = "l148",
                       !.leak_result =
                           Some(leak_detect(req.data.pressure, req.data.flow_rate,
                                            req.data.gps_lat, req.data.gps_lon)),
                       !.calls = Append(req.calls, "leak_detector.detect")]
       ELSE req' = [req EXCEPT !.pc = "l148"]
    /\ UNCHANGED <<scaler, model, diskScaler, diskModel, upd, det, mp_model, res, sinceRetrain>>

\* Lines 147-155.
AnalyzeContamination ==
    /\ req.op = "analyze" /\ req.pc = "l148"
    /\ IF route_contamination(req.anomaly_result[1])
       THEN req' = [req EXCEPT !.pc = "l158",
                       !.contamination_result =
                           Some(contamination_detect(req.data.turbidity,
                                    req.data.temperature, req.data.gps_lat,
                                    req.data.gps_lon)),
                       !.calls = Append(req.calls, "contamination_detector.detect")]
       ELSE req' = [req EXCEPT !.pc = "l158"]
    /\ UNCHANGED <<scaler, model, diskScaler, diskModel, upd, det, mp_model, res, sinceRetrain>>

\* Lines 158-163.
AnalyzeWaterQuality ==
    /\ req.op = "analyze" /\ req.pc = "l158"
    /\ req' = [req EXCEPT !.pc = "l166",
                  !.water_quality =
                      Some(calculate_water_quality(Some(req.data.turbidity),
                               req.data.ph, Some(req.data.temperature),
                               req.data.conductivity)),
                  !.calls = Append(req.calls, "calculate_water_quality")]
    /\ UNCHANGED <<scaler, model, diskScaler, diskModel, upd, det, mp_model, res, sinceRetrain>>

\* Lines 166-185: the response is built and returned.
AnalyzeReturn ==
    /\ req.op = "analyze" /\ req.pc = "l166"
    /\ req' = [req EXCEPT !.pc = "done"]
    /\ res' = combine(req.anomaly_result[1], req.leak_result,
                      req.contamination_result, req.water_quality[1])
    /\ UNCHANGED <<scaler, model, diskScaler, diskModel, upd, det, mp_model, sinceRetrain>>

NextAnalyze ==
    \/ /\ req = NoArg
       /\ \E f \in AnalyzeFlowRates, p \in AnalyzePressures,
             t \in AnalyzeTurbidities, c \in AnalyzeTemperatures,
             ph \in AnalyzePh, k \in AnalyzeConductivities,
             g \in AnalyzeCoordinates :
             AnalyzeCall([flow_rate |-> f, pressure |-> p, turbidity |-> t,
                          temperature |-> c, ph |-> ph, conductivity |-> k,
                          gps_lat |-> g, gps_lon |-> g])
    \/ \E prediction \in {-1, 1}, s \in {-55, -40} : AnalyzeAnomaly(prediction, s)
    \/ AnalyzeLeak
    \/ AnalyzeContamination
    \/ AnalyzeWaterQuality
    \/ AnalyzeReturn

SpecAnalyze == Init /\ [][NextAnalyze]_vars

\* The component named was called by the request in flight, and the
\* request is past lines 137-155, where the analyzers are chosen.
AnalyzeRan(name) == \E i \in DOMAIN req.calls : req.calls[i] = name
AnalyzeRouted == req.pc \in {"l158", "l166", "done"}

\* C11: in every request analyze serves, anomaly_detector.detect is the
\* first component called; then at most one of leak_detector.detect and
\* contamination_detector.detect is called: the former exactly when an
\* anomaly of type leak or pressure_anomaly was detected, the latter exactly
\* when one of type contamination was detected, neither when nothing was
\* detected or the type is low_flow or general_anomaly;
\* calculate_water_quality is called in every case and its score is in the
\* response; leak_details and contamination_details are in the response
\* exactly when the corresponding analyzer was called.
C11_AnalyzeRouting ==
    req.op = "analyze" =>
        /\ req.calls # <<>> => req.calls[1] = "anomaly_detector.detect"
        /\ \A i \in DOMAIN req.calls :
              (i > 1 => req.calls[i] # "anomaly_detector.detect")
        /\ AnalyzeRouted =>
              LET a == req.anomaly_result[1]
                  leak == AnalyzeRan("leak_detector.detect")
                  contamination == AnalyzeRan("contamination_detector.detect")
              IN  /\ ~(leak /\ contamination)
                  /\ leak <=> (a.anomaly_detected
                                 /\ a.anomaly_type \in {"leak", "pressure_anomaly"})
                  /\ contamination <=> (a.anomaly_detected
                                          /\ a.anomaly_type = "contamination")
                  /\ (~a.anomaly_detected
                        \/ a.anomaly_type \in {"low_flow", "general_anomaly"})
                        => (~leak /\ ~contamination)
        /\ req.pc = "done" =>
              /\ AnalyzeRan("calculate_water_quality")
              /\ res.water_quality = req.water_quality[1]
              /\ res.water_quality.wqi \in 0..10000
              /\ (res.leak_details # Absent) <=> AnalyzeRan("leak_detector.detect")
              /\ (res.contamination_details # Absent)
                    <=> AnalyzeRan("contamination_detector.detect")

\* A response to a sample the classifier typed contamination: the
\* contamination analyzer ran after the classifier, the leak analyzer did
\* not, and the score is in the response.
C11_Witness ==
    /\ req.op = "analyze" /\ req.pc = "done"
    /\ req.calls = <<"anomaly_detector.detect", "contamination_detector.detect",
                     "calculate_water_quality">>
    /\ res.anomaly_type = "contamination"
    /\ res.contamination_details # Absent /\ res.leak_details = Absent

\* C15: whenever the response of analyze contains contamination_details,
\* contamination_details.contamination_detected is true and
\* contamination_details.severity equals the top-level severity.
C15_AnalyzerAgreesWithClassifier ==
    (req.op = "analyze" /\ req.pc = "done" /\ res.contamination_details # Absent) =>
        /\ res.contamination_details[1].contamination_detected
        /\ res.contamination_details[1].severity = res.severity

\* C14: every result of AnomalyDetector.detect with anomaly_detected false
\* has no anomaly_type, severity 'low', the description 'All parameters
\* within normal range' and the action 'Continue monitoring'; every result
\* with anomaly_detected true has a severity among medium, high, critical
\* and a confidence within [0,100].
C14_UnflaggedNotEscalated ==
    req.op = "detect" =>
        /\ ~res.anomaly_detected =>
              /\ res.anomaly_type = None
              /\ res.severity = "low"
              /\ res.description = <<"All parameters within normal range">>
              /\ res.recommended_action = "Continue monitoring"
        /\ res.anomaly_detected =>
              /\ res.severity \in {"medium", "high", "critical"}
              /\ res.confidence >= 0 /\ res.confidence <= 100

\* A sample with the pressure below 1 bar and a score beyond -1 that the
\* forest did not flag: the result stays at the baseline.
C14_Witness ==
    /\ req.op = "detect"
    /\ req.prediction = 1 /\ req.pressure < 10 /\ req.anomaly_score < -100
    /\ ~res.anomaly_detected /\ res.severity = "low" /\ res.confidence = 100

\* C13: a detect call leaves the scaler and the forest as they are, so
\* detect calls on the same sample that begin and return with no refit by
\* update_model in between return the same result, whatever other detect
\* calls run among them.
C13_EvaluationsRepeatable ==
    /\ scaler = sinceRetrain.scaler
    /\ model = sinceRetrain.model
    /\ \A a \in sinceRetrain.evals, b \in sinceRetrain.evals :
          a[1] = b[1] => a[2] = b[2]

\* One sample was evaluated twice and another one as well, with no refit
\* among these calls.
C13_Witness ==
    /\ sinceRetrain.repeated
    /\ Cardinality(sinceRetrain.evals) >= 2

====
